---- MODULE Spec2Model ----
(***************************************************************************)
(* A model of the IRIS relational store client (src/utils/iristool.py):   *)
(* identifier validation, the DDL/DML operations with their commit /      *)
(* rollback framing, the cascading drop and the bulk load df_to_table.    *)
(*                                                                         *)
(* Text (table names, schema names, column names) is a sequence of        *)
(* one-character strings, so that "contains a period" and the column      *)
(* normalisation are computed, not assumed.                                *)
(***************************************************************************)
EXTENDS Integers, Sequences, FiniteSets, TLC

VARIABLES
  db,         \* the database as the connection sees it (uncommitted work included)
  committed,  \* the database as of the last commit
  call,       \* the last client call: operation, arguments, outcome, connection log
  live,       \* the objects the client has created and not since dropped, by kind
  vname,      \* validate_table_name: argument table_name
  vschema,    \* validate_table_name: argument table_schema
  vres,       \* validate_table_name: outcome ("none" before the call)
  client,     \* the client object: its connection handle, its use as a context manager
  session     \* the dashboard's session state (st.session_state) and the client it dropped

vars == <<db, committed, call, live, vname, vschema, vres, client, session>>

----------------------------------------------------------------------------
(* Bounds of the model *)

MaxLen == 2      \* longest identifier drawn for validate_table_name
MaxRows == 2     \* most rows a table holds / a batch carries
MaxEvents == 5   \* most enter / exit / close events followed on one client
MaxDepth == 2    \* deepest nesting of with-blocks over one client

----------------------------------------------------------------------------
(* Text *)

\* Python None where a str is expected (a sequence, so it compares with text)
None == <<"None">>

Contains(s, c) == \E i \in DOMAIN s : s[i] = c

\* str.strip() for the whitespace character " "
RECURSIVE LStrip(_)
LStrip(s) == IF s # <<>> /\ Head(s) = " " THEN LStrip(Tail(s)) ELSE s

RECURSIVE RStrip(_)
RStrip(s) ==
  IF s # <<>> /\ s[Len(s)] = " " THEN RStrip(SubSeq(s, 1, Len(s) - 1)) ELSE s

Strip(s) == RStrip(LStrip(s))

\* str.replace(old, new) for one-character old and new
Replace(s, old, new) == [i \in DOMAIN s |-> IF s[i] = old THEN new ELSE s[i]]

\* col.strip(); col.replace(" ", "_"); col.replace(".", "_")
Normalize(col) == Replace(Replace(Strip(col), " ", "_"), ".", "_")

----------------------------------------------------------------------------
(* Outcomes of a call *)

Return(v) == [kind |-> "return", val |-> v, err |-> [type |-> "none", msg |-> "", at |-> 0]]
Raise(e)  == [kind |-> "raise", val |-> <<>>, err |-> e]

InvalidTableName   == [type |-> "ValueError", msg |-> "Invalid table_name", at |-> 0]
InvalidTableSchema == [type |-> "ValueError", msg |-> "Invalid table_schema", at |-> 0]
NoneTypeError      == [type |-> "TypeError", msg |-> "argument of type NoneType", at |-> 0]

IsInvalidIdentifier(e) == e \in {InvalidTableName, InvalidTableSchema}

----------------------------------------------------------------------------
(* Identifier validation *)

\* the check without the underscore rule
validate_table_name_no_underscore(table_name, table_schema) ==
  IF Contains(table_name, ".")
    THEN Raise(InvalidTableName)
  ELSE IF table_schema = None
    THEN Raise(NoneTypeError)
  ELSE IF Contains(table_schema, ".")
    THEN Raise(InvalidTableSchema)
  ELSE IF table_schema # <<>>
    THEN Return(table_schema \o <<".">> \o table_name)
  ELSE Return(table_name)

validate_table_name(table_name, table_schema) ==
  IF Contains(table_name, ".") \/ Contains(table_name, "_")
    THEN Raise(InvalidTableName)
  ELSE IF table_schema = None
    THEN Raise(NoneTypeError)
  ELSE IF Contains(table_schema, ".")
    THEN Raise(InvalidTableSchema)
  ELSE IF table_schema # <<>>
    THEN Return(table_schema \o <<".">> \o table_name)
  ELSE Return(table_name)

----------------------------------------------------------------------------
(* The client as a context manager.  The client is                         *)
(*   [conn, log, depth, exc]                                               *)
(* conn is self.conn (the handle, or None), log the calls of __enter__,     *)
(* __exit__ and close on the client, the calls of close on the handle and  *)
(* the exceptions raised in a with-block, depth the number of with-blocks  *)
(* over the client that are open, exc whether an exception is propagating. *)

Handle == <<"conn">>

\* the client after __init__: self.conn = iris.connect(...)
Connected == [conn |-> Handle, log |-> <<>>, depth |-> 0, exc |-> FALSE]

Logged(c, event) == [c EXCEPT !.log = Append(@, event)]

close_keeps_handle(c) ==
  IF c.conn # None
    THEN Logged(c, "conn.close")
    ELSE c

\* if hasattr(self, "conn") and self.conn: self.conn.close(); self.conn = None
close(c) ==
  IF c.conn # None
    THEN [Logged(c, "conn.close") EXCEPT !.conn = None]
    ELSE c

\* return self
__enter__(c) == c

\* self.close(); the method returns None, so an exception of the block is not
\* suppressed
__exit__(c) == close(c)

----------------------------------------------------------------------------
(* The database behind the connection.  An object of the catalog is keyed  *)
(* by <<schema, name>>; INFORMATION_SCHEMA.TABLES lists tables and views.  *)

S == <<"S">>
T == <<"T">>
V == <<"V">>
W == <<"W">>

\* the objects of the namespace, in catalog order
KeyOrder == << <<S, T>>, <<S, V>>, <<S, W>> >>
Keys == {KeyOrder[i] : i \in DOMAIN KeyOrder}

DefaultSchema == <<"S", "Q", "L", "U", "s", "e", "r">>

Absent == [kind |-> "absent", cols |-> <<>>, rows |-> <<>>, idx |-> {}, base |-> <<>>]
Table(cols) == [kind |-> "table", cols |-> cols, rows |-> <<>>, idx |-> {}, base |-> <<>>]
View(base) == [kind |-> "view", cols |-> <<>>, rows |-> <<>>, idx |-> {}, base |-> base]

EmptyDb == [key \in Keys |-> Absent]

Min(a, b) == IF a < b THEN a ELSE b

\* SQL NULL (cell values are naturals)
Null == 0 - 1

\* the first position of c in seq
Pos(seq, c) == CHOOSE i \in DOMAIN seq : seq[i] = c /\ \A j \in 1..(i - 1) : seq[j] # c

Range(seq) == {seq[i] : i \in DOMAIN seq}
NoDuplicates(seq) == \A i, j \in DOMAIN seq : seq[i] = seq[j] => i = j

\* position of the first period of a qualified name (0: none)
FirstDot(full) ==
  IF Contains(full, ".")
    THEN CHOOSE i \in DOMAIN full : full[i] = "." /\ \A j \in 1..(i - 1) : full[j] # "."
    ELSE 0

\* how the engine resolves the name written in a statement
Resolve(full) ==
  LET i == FirstDot(full)
  IN IF i = 0 THEN <<DefaultSchema, full>>
     ELSE <<SubSeq(full, 1, i - 1), SubSeq(full, i + 1, Len(full))>>

Lookup(d, key) == IF key \in DOMAIN d THEN d[key] ELSE Absent

\* a column name the SQL parser takes as one identifier
IsIdentifier(col) == col # <<>> /\ ~Contains(col, " ") /\ ~Contains(col, ".")

\* a statement as the client hands it to cursor.execute / cursor.executemany
Sql(verb, name, cols, where, rows, opt) ==
  [verb |-> verb, name |-> name, cols |-> cols, where |-> where, rows |-> rows, opt |-> opt]

\* the keys of the views defined over base, in catalog order
ViewsOver(d, base) ==
  LET F[i \in 1..(Len(KeyOrder) + 1)] ==
        IF i > Len(KeyOrder) THEN <<>>
        ELSE IF d[KeyOrder[i]].kind = "view" /\ d[KeyOrder[i]].base = base
          THEN <<KeyOrder[i]>> \o F[i + 1]
          ELSE F[i + 1]
  IN F[1]

\* INFORMATION_SCHEMA.VIEW_TABLE_USAGE WHERE TABLE_NAME = ? AND TABLE_SCHEMA = ?
ViewTableUsage(d, table_name, table_schema) == ViewsOver(d, <<table_schema, table_name>>)

\* The effect of one statement that the server accepts or refuses:
\* [ok, db, rowcount, cols, rows]; lost is the number of rows of a batch the
\* server skips without raising; key and obj are the object the statement names.
Run(d, sql, lost, key, obj) ==
  LET refuse == [ok |-> FALSE, db |-> d, rowcount |-> 0, cols |-> <<>>, rows |-> <<>>]
      accept(d2, n) == [ok |-> TRUE, db |-> d2, rowcount |-> n, cols |-> <<>>, rows |-> <<>>]
      answer(cs, rs) == [ok |-> TRUE, db |-> d, rowcount |-> Len(rs), cols |-> cs, rows |-> rs]
  IN CASE sql.verb = "SELECT TABLES" ->
            \* SELECT COUNT(*) as num_rows FROM INFORMATION_SCHEMA.TABLES WHERE ...
            answer(<< <<"num_rows">> >>,
                   << IF Lookup(d, <<sql.where[2], sql.where[1]>>).kind # "absent"
                        THEN 1 ELSE 0 >>)
       [] sql.verb = "SELECT VIEW_TABLE_USAGE" ->
            answer(<< <<"VIEW_SCHEMA">>, <<"VIEW_NAME">> >>,
                   ViewTableUsage(d, sql.where[1], sql.where[2]))
       [] sql.verb = "SELECT INDEXES" ->
            answer(<< <<"count">> >>,
                   << IF sql.where[3] \in Lookup(d, <<sql.where[2], sql.where[1]>>).idx
                        THEN 1 ELSE 0 >>)
       [] sql.verb = "SELECT *" ->
            IF obj.kind = "absent" THEN refuse
            ELSE IF obj.kind = "view"
              THEN IF Lookup(d, obj.base).kind = "absent" THEN refuse
                   ELSE answer(Lookup(d, obj.base).cols, Lookup(d, obj.base).rows)
            ELSE answer(obj.cols, obj.rows)
       [] sql.verb = "CREATE TABLE" ->
            IF key \notin DOMAIN d \/ obj.kind # "absent" \/ sql.cols = <<>>
               \/ ~NoDuplicates(sql.cols) \/ \E c \in Range(sql.cols) : ~IsIdentifier(c)
              THEN refuse
              ELSE accept([d EXCEPT ![key] = Table(sql.cols)], 0)
       [] sql.verb = "DROP" ->
            IF obj.kind = sql.opt[1]
              THEN accept([d EXCEPT ![key] = Absent], 0)
            ELSE IF sql.opt[2] = "IF EXISTS" THEN accept(d, 0)
            ELSE refuse
       [] sql.verb = "INSERT" ->
            \* sql.rows: one tuple of values per row, aligned with sql.cols
            IF obj.kind # "table" \/ sql.cols = <<>> \/ ~NoDuplicates(sql.cols)
               \/ ~(Range(sql.cols) \subseteq Range(obj.cols))
               \/ \E r \in Range(sql.rows) : Len(r) # Len(sql.cols)
              THEN refuse
              ELSE LET n == Len(sql.rows) - Min(lost, Len(sql.rows))
                       stored(r) == [i \in DOMAIN obj.cols |->
                                       IF obj.cols[i] \in Range(sql.cols)
                                         THEN r[Pos(sql.cols, obj.cols[i])] ELSE Null]
                       kept == [i \in 1..n |-> stored(sql.rows[i])]
                   IN accept([d EXCEPT ![key].rows = @ \o kept], n)
       [] sql.verb = "UPDATE" ->
            \* sql.rows: the bound values, those of SET then those of WHERE
            IF obj.kind # "table" \/ sql.cols = <<>> \/ sql.where = <<>>
               \/ ~(Range(sql.cols) \cup Range(sql.where) \subseteq Range(obj.cols))
               \/ Len(sql.rows) # Len(sql.cols) + Len(sql.where)
              THEN refuse
              ELSE LET hit == {i \in DOMAIN obj.rows :
                                 \A j \in DOMAIN sql.where :
                                   obj.rows[i][Pos(obj.cols, sql.where[j])]
                                     = sql.rows[Len(sql.cols) + j]}
                       set(r) == [c \in DOMAIN r |->
                                    IF obj.cols[c] \in Range(sql.cols)
                                      THEN sql.rows[Pos(sql.cols, obj.cols[c])] ELSE r[c]]
                   IN accept([d EXCEPT ![key].rows =
                                [i \in DOMAIN @ |-> IF i \in hit THEN set(@[i]) ELSE @[i]]],
                             Cardinality(hit))
       [] sql.verb = "ALTER TABLE ADD" ->
            IF obj.kind # "table" \/ ~IsIdentifier(sql.cols[1])
               \/ sql.cols[1] \in Range(obj.cols)
              THEN refuse
              ELSE accept([d EXCEPT ![key].cols = @ \o sql.cols,
                                    ![key].rows = [i \in DOMAIN @ |-> Append(@[i], Null)]], 0)
       [] sql.verb = "CREATE INDEX" ->
            IF obj.kind # "table" \/ ~(Range(sql.cols) \subseteq Range(obj.cols))
               \/ sql.opt[1] \in obj.idx
              THEN refuse
              ELSE accept([d EXCEPT ![key].idx = @ \cup {sql.opt[1]}], 0)
       [] sql.verb = "CREATE VIEW" ->
            IF key \notin DOMAIN d \/ obj.kind # "absent"
               \/ Lookup(d, sql.where).kind = "absent"
              THEN refuse
              ELSE accept([d EXCEPT ![key] = View(sql.where)], 0)
       [] OTHER -> refuse

\* the server resolves the name in the statement, then runs the statement
Engine(d, sql, lost) == Run(d, sql, lost, Resolve(sql.name), Lookup(d, Resolve(sql.name)))

----------------------------------------------------------------------------
(* The connection during one client call.  A call threads a record         *)
(*   [db, cm, log, k, faults, lost]                                        *)
(* through its steps: db and cm are the working and the committed          *)
(* database, log the calls made on the connection and its cursors, k the   *)
(* number of statements handed to the server so far, faults the statements *)
(* (by number) that the server or the transport fails, lost the rows a     *)
(* batch skips without raising.                                            *)

NoSql == Sql("", <<>>, <<>>, <<>>, <<>>, <<>>)

EngineError(k) == [type |-> "DatabaseError", msg |-> "statement failed", at |-> k]

\* k: the number of the statement (0 for commit and rollback); rowcount: the
\* cursor.rowcount the statement left behind
Event(ev, op, depth, sql, ok, k) ==
  [ev |-> ev, op |-> op, depth |-> depth, sql |-> sql, ok |-> ok, k |-> k, rowcount |-> 0]

Start(d, cm, faults, lost) ==
  [db |-> d, cm |-> cm, log |-> <<>>, k |-> 0, faults |-> faults, lost |-> lost]

\* cursor.execute(sql) / cursor.executemany(sql, values): [m, ok, err, rowcount, cols, rows]
\* r is what the server made of the statement
Answer(m, op, depth, ev, sql, r) ==
  LET k == m.k + 1
      ok == k \notin m.faults /\ r.ok
  IN [m |-> [m EXCEPT !.k = k,
                      !.db = IF ok THEN r.db ELSE @,
                      !.log = Append(@, [Event(ev, op, depth, sql, ok, k) EXCEPT
                                           !.rowcount = IF ok THEN r.rowcount ELSE 0])],
      ok |-> ok, err |-> EngineError(k),
      rowcount |-> IF ok THEN r.rowcount ELSE 0,
      cols |-> IF ok THEN r.cols ELSE <<>>,
      rows |-> IF ok THEN r.rows ELSE <<>>]

Exec(m, op, depth, ev, sql) ==
  Answer(m, op, depth, ev, sql,
         Engine(m.db, sql, IF ev = "executemany" THEN m.lost ELSE 0))

\* self.conn.commit()
\* a commit that makes nothing durable
CommitKeepsOld(m, op, depth) ==
  [m EXCEPT !.log = Append(@, Event("commit", op, depth, NoSql, TRUE, 0))]

\* self.conn.commit()
Commit(m, op, depth) ==
  [m EXCEPT !.cm = m.db, !.log = Append(@, Event("commit", op, depth, NoSql, TRUE, 0))]

\* a rollback that undoes nothing
RollbackKeeps(m, op, depth) ==
  [m EXCEPT !.log = Append(@, Event("rollback", op, depth, NoSql, TRUE, 0))]

\* self.conn.rollback()
Rollback(m, op, depth) ==
  [m EXCEPT !.db = m.cm, !.log = Append(@, Event("rollback", op, depth, NoSql, TRUE, 0))]

Out(m, res) == [m |-> m, res |-> res]

\* the except branch re-raises without rolling back
CommitNoRollback(x, op, depth) ==
  IF x.ok THEN Out(Commit(x.m, op, depth), Return(<<>>))
  ELSE Out(x.m, Raise(x.err))

\* x: the executed statement.  commit() / except: rollback(); raise
CommitOrRollback(x, op, depth) ==
  IF x.ok THEN Out(Commit(x.m, op, depth), Return(<<>>))
  ELSE Out(Rollback(x.m, op, depth), Raise(x.err))

\* try: execute(sql); commit() / except: rollback(); raise
ExecCommitOrRollback(m, op, depth, sql) ==
  CommitOrRollback(Exec(m, op, depth, "execute", sql), op, depth)

----------------------------------------------------------------------------
(* Query and metadata *)

DataFrame(cols, rows) == [cols |-> cols, rows |-> rows]

\* an empty result keeps the columns of the cursor description
FetchedWithColumns(x) ==
  IF ~x.ok THEN Out(x.m, Raise(x.err))
  ELSE Out(x.m, Return(DataFrame(x.cols, x.rows)))

\* the rows come back last first
FetchedReversed(x) ==
  IF ~x.ok THEN Out(x.m, Raise(x.err))
  ELSE IF x.rows = <<>> THEN Out(x.m, Return(DataFrame(<<>>, <<>>)))
  ELSE Out(x.m, Return(DataFrame(x.cols, [i \in DOMAIN x.rows |->
                                            x.rows[Len(x.rows) + 1 - i]])))

\* x: the executed query.  rows = cursor.fetchall(); if not rows: return
\* pd.DataFrame(); else the rows under the names of cursor.description
Fetched(x) ==
  IF ~x.ok THEN Out(x.m, Raise(x.err))
  ELSE IF x.rows = <<>> THEN Out(x.m, Return(DataFrame(<<>>, <<>>)))
  ELSE Out(x.m, Return(DataFrame(x.cols, x.rows)))

fetch(m, op, depth, sql) == Fetched(Exec(m, op, depth, "execute", sql))

\* the count of the catalog query is not looked at
CountIgnored(f) ==
  IF f.res.kind = "raise" THEN f ELSE Out(f.m, Return(FALSE))

\* f: the fetched count.  exists = int(exists_df['num_rows'][0]) > 0
CountPositive(f) ==
  IF f.res.kind = "raise" THEN f ELSE Out(f.m, Return(f.res.val.rows[1] > 0))

\* v: the validated name
Validated(m, v, out) == IF v.kind = "raise" THEN Out(m, v) ELSE out

\* the parameters of the catalog query in the other order
table_exists_swapped(m, depth, table_name, table_schema) ==
  Validated(m, validate_table_name(table_name, table_schema),
            CountPositive(fetch(m, "table_exists", depth,
                                Sql("SELECT TABLES", <<>>, <<>>, <<table_schema, table_name>>,
                                    <<>>, <<>>))))

table_exists(m, depth, table_name, table_schema) ==
  Validated(m, validate_table_name(table_name, table_schema),
            CountPositive(fetch(m, "table_exists", depth,
                                Sql("SELECT TABLES", <<>>, <<>>, <<table_name, table_schema>>,
                                    <<>>, <<>>))))

\* f: the fetched rows.  df.to_dict(orient="records") if not df.empty else []
Records(f) == IF f.res.kind = "raise" THEN f ELSE Out(f.m, Return(f.res.val.rows))

views_using_table(m, depth, table_name, table_schema) ==
  Records(fetch(m, "views_using_table", depth,
                Sql("SELECT VIEW_TABLE_USAGE", <<>>, <<>>, <<table_name, table_schema>>, <<>>,
                    <<>>)))

----------------------------------------------------------------------------
(* A Python dict is a sequence of <<key, value>> pairs with distinct keys, *)
(* in insertion order.                                                     *)

DictKeys(dict) == [i \in DOMAIN dict |-> dict[i][1]]
DictValues(dict) == [i \in DOMAIN dict |-> dict[i][2]]
HasKey(dict, key) == \E i \in DOMAIN dict : dict[i][1] = key
DictGet(dict, key) == dict[CHOOSE i \in DOMAIN dict : dict[i][1] = key][2]

\* dict[key] = value
DictSet(dict, key, value) ==
  IF HasKey(dict, key)
    THEN [i \in DOMAIN dict |-> IF dict[i][1] = key THEN <<key, value>> ELSE dict[i]]
    ELSE Append(dict, <<key, value>>)

----------------------------------------------------------------------------
(* Rows *)

\* insert_row without the call of validate_table_name
insert_row_unvalidated(m, depth, table_name, values, table_schema) ==
  ExecCommitOrRollback(m, "insert_row", depth,
                       Sql("INSERT", table_schema \o <<".">> \o table_name, DictKeys(values),
                           <<>>, <<DictValues(values)>>, <<>>))

insert_row(m, depth, table_name, values, table_schema) ==
  LET v == validate_table_name(table_name, table_schema)
  IN Validated(m, v,
               ExecCommitOrRollback(m, "insert_row", depth,
                                    Sql("INSERT", v.val, DictKeys(values), <<>>,
                                        <<DictValues(values)>>, <<>>)))

\* x: the executed statement.  commit(); return cursor.rowcount / except:
\* rollback(); raise
CommitRowcount(x, op, depth) ==
  IF x.ok THEN Out(Commit(x.m, op, depth), Return(x.rowcount))
  ELSE Out(Rollback(x.m, op, depth), Raise(x.err))

insert_many(m, depth, table_name, rows, table_schema) ==
  LET v == validate_table_name(table_name, table_schema)
      columns == DictKeys(rows[1])
      col_str == [i \in DOMAIN columns |-> Replace(columns[i], " ", "_")]
      values == [r \in DOMAIN rows |->
                   [c \in DOMAIN columns |-> DictGet(rows[r], columns[c])]]
  IN IF rows = <<>> THEN Out(m, Return(0))
     ELSE Validated(m, v,
                    CommitRowcount(Exec(m, "insert_many", depth, "executemany",
                                        Sql("INSERT", v.val, col_str, <<>>, values, <<>>)),
                                   "insert_many", depth))

update(m, depth, table_name, new_values, filters, table_schema) ==
  LET v == validate_table_name(table_name, table_schema)
      set_clause == DictKeys(new_values)
      where_clause == [i \in DOMAIN filters |-> Replace(DictKeys(filters)[i], " ", "_")]
  IN Validated(m, v,
               CommitRowcount(Exec(m, "update", depth, "execute",
                                   Sql("UPDATE", v.val, set_clause, where_clause,
                                       DictValues(new_values) \o DictValues(filters), <<>>)),
                              "update", depth))

RECURSIVE UpdateEach(_, _, _, _, _, _)
RECURSIVE UpdateNext(_, _, _, _, _, _)

UpdateNextCommitting(x, depth, full_table, updates, i, total) ==
  IF x.ok THEN UpdateEach(Commit(x.m, "update_many", depth), depth, full_table, updates, i + 1,
                          total + x.rowcount)
  ELSE Out(x.m, Raise(x.err))

\* x: the executed UPDATE of updates[i].  total += cursor.rowcount, then the
\* next pair; a failure leaves the loop
UpdateNext(x, depth, full_table, updates, i, total) ==
  IF x.ok THEN UpdateEach(x.m, depth, full_table, updates, i + 1, total + x.rowcount)
  ELSE Out(x.m, Raise(x.err))

\* the for loop of update_many from updates[i] on: [m, res] with the running total
UpdateEach(m, depth, full_table, updates, i, total) ==
  IF i > Len(updates) THEN Out(m, Return(total))
  ELSE UpdateNext(Exec(m, "update_many", depth, "execute",
                       Sql("UPDATE", full_table, DictKeys(updates[i][1]),
                           DictKeys(updates[i][2]),
                           DictValues(updates[i][1]) \o DictValues(updates[i][2]), <<>>)),
                  depth, full_table, updates, i, total)

\* x: the loop as it ended.  commit(); return total / except: rollback(); raise
CommitTotal(x, depth) ==
  IF x.res.kind = "return" THEN Out(Commit(x.m, "update_many", depth), x.res)
  ELSE Out(Rollback(x.m, "update_many", depth), x.res)

update_many(m, depth, table_name, updates, table_schema) ==
  LET v == validate_table_name(table_name, table_schema)
  IN IF updates = <<>> THEN Out(m, Return(0))
     ELSE Validated(m, v, CommitTotal(UpdateEach(m, depth, v.val, updates, 1, 0), depth))

----------------------------------------------------------------------------
(* Tables *)

\* ValueError(f"Table {table_name} already exists.")
TableAlreadyExists == [type |-> "ValueError", msg |-> "Table already exists", at |-> 0]

CreateWhateverExists(e, depth, sql) ==
  IF e.res.kind = "raise" THEN e
  ELSE ExecCommitOrRollback(e.m, "create_table", depth, sql)

\* e: the answer of table_exists.  if check_exists and table_exists: raise
CreateUnlessExists(e, depth, sql) ==
  IF e.res.kind = "raise" THEN e
  ELSE IF e.res.val THEN Out(e.m, Raise(TableAlreadyExists))
  ELSE ExecCommitOrRollback(e.m, "create_table", depth, sql)

create_table(m, depth, table_name, columns, table_schema, check_exists) ==
  LET v == validate_table_name(table_name, table_schema)
      sql == Sql("CREATE TABLE", v.val, DictKeys(columns), <<>>, <<>>, <<>>)
  IN Validated(m, v,
               IF check_exists
                 THEN CreateUnlessExists(table_exists(m, depth + 1, table_name, table_schema),
                                         depth, sql)
                 ELSE ExecCommitOrRollback(m, "create_table", depth, sql))

RECURSIVE drop_table(_, _, _, _, _, _, _)
RECURSIVE DropRelatedViews(_, _, _, _)
RECURSIVE DropFirstRelatedView(_, _, _, _)
RECURSIVE DropNextRelatedViews(_, _, _, _)

\* the loop leaves after the first related view
DropFirstRelatedView(m, depth, views, i) ==
  IF i > Len(views) \/ i > 1 THEN Out(m, Return(<<>>))
  ELSE LET x == drop_table(m, depth + 1, views[i][2], views[i][1], FALSE, FALSE, "view")
       IN IF x.res.kind = "raise" THEN x
          ELSE DropFirstRelatedView(x.m, depth, views, i + 1)

\* x: the drop of views[i] as it ended; an error leaves the loop and the method
DropNextRelatedViews(x, depth, views, i) ==
  IF x.res.kind = "raise" THEN x ELSE DropRelatedViews(x.m, depth, views, i + 1)

\* the for loop of drop_table over the views from views[i] on
DropRelatedViews(m, depth, views, i) ==
  IF i > Len(views) THEN Out(m, Return(<<>>))
  ELSE DropNextRelatedViews(drop_table(m, depth + 1, views[i][2], views[i][1], FALSE, FALSE,
                                       "view"),
                            depth, views, i)

\* u: the answer of views_using_table
DropViews(u, depth) ==
  IF u.res.kind = "raise" THEN u ELSE DropRelatedViews(u.m, depth, u.res.val, 1)

\* related: the cascade as it ended.  try: execute(DROP ...); commit() / except
DropAfterViews(related, depth, sql) ==
  IF related.res.kind = "raise" THEN related
  ELSE ExecCommitOrRollback(related.m, "drop_table", depth, sql)

\* drop_table that never writes IF EXISTS
drop_table_without_if_exists(m, depth, table_name, table_schema, if_exists, drop_related_views, view_or_table) ==
  LET v == validate_table_name(table_name, table_schema)
  IN Validated(m, v,
               DropAfterViews(IF drop_related_views
                                THEN DropViews(views_using_table(m, depth + 1, table_name,
                                                                 table_schema), depth)
                                ELSE Out(m, Return(<<>>)),
                              depth,
                              Sql("DROP", v.val, <<>>, <<>>, <<>>, <<view_or_table, "">>)))

drop_table(m, depth, table_name, table_schema, if_exists, drop_related_views, view_or_table) ==
  LET v == validate_table_name(table_name, table_schema)
  IN Validated(m, v,
               DropAfterViews(IF drop_related_views
                                THEN DropViews(views_using_table(m, depth + 1, table_name,
                                                                 table_schema), depth)
                                ELSE Out(m, Return(<<>>)),
                              depth,
                              Sql("DROP", v.val, <<>>, <<>>, <<>>,
                                  <<view_or_table, IF if_exists THEN "IF EXISTS" ELSE "">>)))

RECURSIVE AddEach(_, _, _, _, _)
RECURSIVE AddNext(_, _, _, _, _)

AddNextUncommitted(x, depth, full_name, new_columns, i) ==
  IF x.ok THEN AddEach(x.m, depth, full_name, new_columns, i + 1)
  ELSE Out(Rollback(x.m, "add_columns", depth), Raise(x.err))

\* x: the executed ALTER TABLE of new_columns[i].  commit(), then the next
\* column / except: rollback(); raise
AddNext(x, depth, full_name, new_columns, i) ==
  IF x.ok THEN AddEach(Commit(x.m, "add_columns", depth), depth, full_name, new_columns, i + 1)
  ELSE Out(Rollback(x.m, "add_columns", depth), Raise(x.err))

\* the for loop of add_columns from new_columns[i] on
AddEach(m, depth, full_name, new_columns, i) ==
  IF i > Len(new_columns) THEN Out(m, Return(<<>>))
  ELSE AddNext(Exec(m, "add_columns", depth, "execute",
                    Sql("ALTER TABLE ADD", full_name, <<new_columns[i][1]>>, <<>>, <<>>,
                        <<new_columns[i][2]>>)),
               depth, full_name, new_columns, i)

add_columns(m, depth, table_name, new_columns, table_schema) ==
  LET v == validate_table_name(table_name, table_schema)
  IN Validated(m, v, AddEach(m, depth, v.val, new_columns, 1))

----------------------------------------------------------------------------
(* Type inference.  A tabular value is [cols |-> <<column, ...>>], a       *)
(* column [name, dtype, vals].  Values: pairs <<hi, lo>> for "int64";      *)
(* records                                                                 *)
(* [date, time] for "datetime64" (0: 1970-01-01, 0: midnight); records     *)
(* [t, len] for "object" with t one of "str", "date", "datetime", "time",  *)
(* "null", "other" and len the length of the rendered value.               *)

max_string_length == 255
INT_MAX == 2147483647
INT_MIN == (0 - INT_MAX) - 1

SetMax(set) == CHOOSE x \in set : \A y \in set : y <= x

\* A 64-bit integer of an int64 column is the pair <<hi, lo>> that stands for
\* hi * Half + lo with lo in 0..Half-1, so that values beyond the 32-bit range
\* can be written and compared.
Half == 65536
Wide(n) == <<n \div Half, n % Half>>
Narrow(w) == w[1] * Half + w[2]
WideSucc(w) == IF w[2] = Half - 1 THEN <<w[1] + 1, 0>> ELSE <<w[1], w[2] + 1>>
WidePred(w) == IF w[2] = 0 THEN <<w[1] - 1, Half - 1>> ELSE <<w[1], w[2] - 1>>
\* v > w
WideGreater(v, w) == v[1] > w[1] \/ (v[1] = w[1] /\ v[2] > w[2])
\* series.max() and series.min() of a non-empty int64 column
WideMax(vals) == CHOOSE x \in Range(vals) : \A y \in Range(vals) : ~WideGreater(y, x)
WideMin(vals) == CHOOSE x \in Range(vals) : \A y \in Range(vals) : ~WideGreater(x, y)

\* len(df)
DfLen(df) == IF df.cols = <<>> THEN 0 ELSE Len(df.cols[1].vals)
\* df.columns
DfColumns(df) == [i \in DOMAIN df.cols |-> df.cols[i].name]
\* df.values.tolist()
DfValues(df) == [r \in 1..DfLen(df) |-> [c \in DOMAIN df.cols |-> Narrow(df.cols[c].vals[r])]]

\* series.dropna() of an object column
DropNa(vals) == SelectSeq(vals, LAMBDA x : x.t # "null")

\* ptypes.is_string_dtype of an object column: every element is a str
IsStringDtype(vals) == \A i \in DOMAIN vals : vals[i].t = "str"

Varchar == "VARCHAR(255)"

\* the type the first loop stores for a column ("" when no branch stores one)
ClassifyColumn(series) ==
  LET vals == series.vals
      nonnull == DropNa(vals)
  IN CASE series.dtype = "int64" ->
            IF vals # <<>> /\ (WideGreater(WideMax(vals), Wide(INT_MAX)) \/ WideGreater(Wide(INT_MIN), WideMin(vals)))
              THEN "BIGINT" ELSE "INT"
       [] series.dtype = "float64" -> "DOUBLE"
       [] series.dtype = "datetime64" ->
            IF \A i \in DOMAIN vals : vals[i].time = 0 THEN "DATE"
            ELSE IF \A i \in DOMAIN vals : vals[i].date = 0 THEN "TIME"
            ELSE "DATETIME"
       [] series.dtype = "object" ->
            IF \A i \in DOMAIN nonnull : nonnull[i].t = "date" THEN "DATE"
            ELSE IF \A i \in DOMAIN nonnull : nonnull[i].t = "time" THEN "TIME"
            ELSE IF IsStringDtype(vals)
              THEN IF SetMax({nonnull[i].len : i \in DOMAIN nonnull}) > max_string_length
                     THEN "CLOB" ELSE Varchar
            ELSE ""
       [] series.dtype = "bool" -> "BIT"
       [] OTHER -> ""

infer_iris_types(df) ==
  LET n == Len(df.cols)
      First[i \in 0..n] ==
        \* column_types after the first loop has handled columns 1..i
        IF i = 0 THEN <<>>
        ELSE LET type == ClassifyColumn(df.cols[i])
             IN IF type = "" THEN First[i - 1]
                ELSE DictSet(First[i - 1], Normalize(df.cols[i].name), type)
      Second[i \in 0..n] ==
        \* column_types after the fallback loop has handled columns 1..i
        IF i = 0 THEN First[n]
        ELSE IF ~HasKey(Second[i - 1], df.cols[i].name)
          THEN DictSet(Second[i - 1], Normalize(df.cols[i].name), Varchar)
          ELSE Second[i - 1]
  IN Second[n]

----------------------------------------------------------------------------
(* Indexes *)

\* x: the executed count query.  exists = cursor.fetchone()[0] > 0
Counted(x) ==
  IF ~x.ok THEN Out(x.m, Raise(x.err)) ELSE Out(x.m, Return(x.rows[1] > 0))

index_exists(m, depth, table_name, index_name, table_schema) ==
  Validated(m, validate_table_name(table_name, table_schema),
            Counted(Exec(m, "index_exists", depth, "execute",
                         Sql("SELECT INDEXES", <<>>, <<>>,
                             <<table_name, table_schema, index_name>>, <<>>, <<>>))))

\* e: the answer of index_exists.  if index_exists: raise ValueError
CreateUnlessIndexed(e, depth, sql) ==
  IF e.res.kind = "raise" THEN e
  ELSE IF e.res.val
    THEN Out(e.m, Raise([type |-> "ValueError", msg |-> "Index already exists", at |-> 0]))
  ELSE ExecCommitOrRollback(e.m, "create_index", depth, sql)

create_index(m, depth, index_name, table_name, column_name, index_type, table_schema) ==
  LET v == validate_table_name(table_name, table_schema)
  IN Validated(m, v,
               CreateUnlessIndexed(
                 index_exists(m, depth + 1, table_name, index_name, table_schema), depth,
                 Sql("CREATE INDEX", v.val, <<column_name>>, <<>>, <<>>,
                     <<index_name, IF index_type \in {"", "index"} THEN "" ELSE index_type>>)))

CommitOrReraise(x, depth) ==
  CommitOrRollback(x, "create_hnsw_index", depth)

\* x: the executed statement.  commit() / except: print, nothing else
CommitOrSwallow(x, depth) ==
  IF x.ok THEN Out(Commit(x.m, "create_hnsw_index", depth), Return(<<>>))
  ELSE Out(x.m, Return(<<>>))

create_hnsw_index(m, depth, table_name, column_name, index_name, table_schema) ==
  LET v == validate_table_name(table_name, table_schema)
  IN Validated(m, v,
               CommitOrSwallow(Exec(m, "create_hnsw_index", depth, "execute",
                                    Sql("CREATE INDEX", v.val, <<column_name>>, <<>>, <<>>,
                                        <<index_name, "HNSW">>)),
                               depth))

----------------------------------------------------------------------------
(* Views.  The SELECT text of a view is modelled by the object it reads:   *)
(* CREATE VIEW v AS SELECT * FROM base.                                    *)

\* d: the drop of the existing view as it ended
CreateAfterFailedDrop(d, depth, sql) ==
  ExecCommitOrRollback(d.m, "create_view", depth, sql)

CreateAfterDrop(d, depth, sql) ==
  IF d.res.kind = "raise" THEN d ELSE ExecCommitOrRollback(d.m, "create_view", depth, sql)

\* e: the answer of table_exists for the view
ViewUnlessExists(e, depth, view_name, view_schema, exist_ok, drop_if_exists, sql) ==
  IF e.res.kind = "raise" THEN e
  ELSE IF ~e.res.val THEN ExecCommitOrRollback(e.m, "create_view", depth, sql)
  ELSE IF ~exist_ok
    THEN Out(e.m, Raise([type |-> "ValueError", msg |-> "View already exists", at |-> 0]))
  ELSE IF ~drop_if_exists THEN Out(e.m, Return(<<>>))
  ELSE CreateAfterDrop(drop_table(e.m, depth + 1, view_name, view_schema, TRUE, FALSE, "view"),
                       depth, sql)

create_view(m, depth, view_name, base, view_schema, exist_ok, drop_if_exists) ==
  LET v == validate_table_name(view_name, view_schema)
  IN Validated(m, v,
               ViewUnlessExists(table_exists(m, depth + 1, view_name, view_schema), depth,
                                view_name, view_schema, exist_ok, drop_if_exists,
                                Sql("CREATE VIEW", v.val, <<>>, base, <<>>, <<>>)))

----------------------------------------------------------------------------
(* DataFrame -> table *)

LoadError(k) == [type |-> "RuntimeError", msg |-> "Converting DataFrame to table failed", at |-> k]

\* column_types=None
NoColumnTypes == [none |-> TRUE, dict |-> <<>>]

\* idx.get("name", f"{table_name}_{col}_{idx_type}")
IndexName(table_name, col, idx_type) == table_name \o <<"_">> \o col \o <<"_", idx_type>>

RECURSIVE AddIndices(_, _, _, _, _, _)
RECURSIVE AddNextIndices(_, _, _, _, _, _)

AddNextIndicesSkipping(x, depth, table_name, table_schema, indices, i) ==
  IF x.res.kind = "raise" THEN x
  ELSE AddIndices(x.m, depth, table_name, table_schema, indices, i + 2)

\* x: the creation of the index indices[i] as it ended
AddNextIndices(x, depth, table_name, table_schema, indices, i) ==
  IF x.res.kind = "raise" THEN x
  ELSE AddIndices(x.m, depth, table_name, table_schema, indices, i + 1)

\* the for loop of df_to_table over indices[i..]
AddIndices(m, depth, table_name, table_schema, indices, i) ==
  IF i > Len(indices) THEN Out(m, Return(<<>>))
  ELSE LET col == Normalize(indices[i].column)
           idx_type == indices[i].type
           idx_name == IndexName(table_name, col, idx_type)
       IN AddNextIndices(IF idx_type = "hnsw"
                           THEN create_hnsw_index(m, depth + 1, table_name, col, idx_name,
                                                  table_schema)
                           ELSE create_index(m, depth + 1, idx_name, table_name, col, idx_type,
                                             table_schema),
                         depth, table_name, table_schema, indices, i)

\* the batch is committed whatever count it reports
CommitUnchecked(x, depth, df) ==
  IF x.ok THEN Out(Commit(x.m, "df_to_table", depth), Return(<<>>))
  ELSE Out(Rollback(x.m, "df_to_table", depth), Raise(LoadError(x.err.at)))

\* x: the executed batch.  if cursor.rowcount != len(df): raise; commit() /
\* except: rollback(); raise RuntimeError
CommitChecked(x, depth, df) ==
  IF x.ok /\ x.rowcount = DfLen(df)
    THEN Out(Commit(x.m, "df_to_table", depth), Return(<<>>))
  ELSE Out(Rollback(x.m, "df_to_table", depth), Raise(LoadError(IF x.ok THEN 0 ELSE x.err.at)))

\* the try block of df_to_table
BulkInsert(m, depth, df, full_name) ==
  CommitChecked(Exec(m, "df_to_table", depth, "executemany",
                     Sql("INSERT", full_name,
                         [i \in DOMAIN df.cols |-> Normalize(df.cols[i].name)], <<>>,
                         DfValues(df), <<>>)),
                depth, df)

\* ix: the index loop as it ended
InsertAfterIndices(ix, depth, df, full_name) ==
  IF ix.res.kind = "raise" THEN ix ELSE BulkInsert(ix.m, depth, df, full_name)

\* c: create_table as it ended
IndexAndInsert(c, depth, df, table_name, table_schema, indices, full_name) ==
  IF c.res.kind = "raise" THEN c
  ELSE InsertAfterIndices(AddIndices(c.m, depth, table_name, table_schema, indices, 1), depth,
                          df, full_name)

\* df_to_table from "determine column types" on
LoadInto(m, depth, df, table_name, table_schema, column_types, indices, full_name) ==
  IndexAndInsert(create_table(m, depth + 1, table_name,
                              IF column_types.none THEN infer_iris_types(df)
                              ELSE column_types.dict,
                              table_schema, FALSE),
                 depth, df, table_name, table_schema, indices, full_name)

\* d: the drop of the existing table as it ended
LoadAfterDrop(d, depth, df, table_name, table_schema, column_types, indices, full_name) ==
  IF d.res.kind = "raise" THEN d
  ELSE LoadInto(d.m, depth, df, table_name, table_schema, column_types, indices, full_name)

\* e: the answer of table_exists.  if exist_ok and table_exists: drop or return
LoadUnlessExists(e, depth, df, table_name, table_schema, column_types, drop_if_exists, drop_related_views, indices, full_name) ==
  IF e.res.kind = "raise" THEN e
  ELSE IF ~e.res.val
    THEN LoadInto(e.m, depth, df, table_name, table_schema, column_types, indices, full_name)
  ELSE IF ~drop_if_exists THEN Out(e.m, Return(<<>>))
  ELSE LoadAfterDrop(drop_table(e.m, depth + 1, table_name, table_schema, TRUE,
                                drop_related_views, "table"),
                     depth, df, table_name, table_schema, column_types, indices, full_name)

df_to_table(m, depth, df, table_name, table_schema, column_types, exist_ok, drop_if_exists, drop_related_views, indices) ==
  LET v == validate_table_name(table_name, table_schema)
  IN Validated(m, v,
               IF exist_ok
                 THEN LoadUnlessExists(table_exists(m, depth + 1, table_name, table_schema),
                                       depth, df, table_name, table_schema, column_types,
                                       drop_if_exists, drop_related_views, indices, v.val)
                 ELSE LoadInto(m, depth, df, table_name, table_schema, column_types, indices,
                               v.val))

----------------------------------------------------------------------------
(* Inputs *)

\* identifiers the validator refuses
UnderscoreName == <<"T", "_">>
DottedName == <<"S", ".", "T">>
DottedSchema == <<"S", ".">>

\* <<table_name, table_schema>> as callers give them
BadIdents == {<<UnderscoreName, S>>, <<DottedName, S>>, <<T, DottedSchema>>}
TableIdents == {<<T, S>>} \cup BadIdents
ViewIdents == {<<V, S>>, <<W, S>>} \cup BadIdents
AnyIdents == {<<T, S>>, <<V, S>>, <<W, S>>} \cup BadIdents

\* column names as callers give them: "a", "b c", " d.e"
ColA == <<"a">>
ColB == <<"b", " ", "c">>
ColD == <<" ", "d", ".", "e">>
ColX == <<"x">>
ColY == <<"y">>

\* a tabular value of n rows with integer columns of the given names
Frame(names, n) ==
  [cols |-> [i \in DOMAIN names |->
               [name |-> names[i], dtype |-> "int64", vals |-> [r \in 1..n |-> Wide(r)]]]]

\* the fault plans with at most one failing statement among the first n
FaultsUpTo(n) == {{}} \cup {{k} : k \in 1..n}

\* a call with a refused identifier reaches no statement: one plan is enough
FaultsFor(id, n) == IF id \in BadIdents THEN {{}} ELSE FaultsUpTo(n)

NotCalled == [kind |-> "none", val |-> <<>>, err |-> [type |-> "none", msg |-> "", at |-> 0]]

RowsOf(d, key) == Len(d[key].rows)

NoCall == [op |-> "none", args |-> <<>>, res |-> NotCalled, log |-> <<>>, pre |-> EmptyDb]

----------------------------------------------------------------------------
(* The dashboard session.  One run of the script renders the sidebar and,  *)
(* when a client is connected, the upload tab and the explore tab; the     *)
(* user acts on one widget per run.  A loaded frame is <<kind, schema,     *)
(* table, server>>: what it holds ("rows", "filtered", "empty", "agg") and *)
(* the table of the server it was read or derived from.                    *)

NoSelection == "(none)"

\* the servers the connection form can name
Servers == {"c1", "c2"}

\* SELECT TABLE_SCHEMA FROM INFORMATION_SCHEMA.TABLES ... GROUP BY TABLE_SCHEMA
show_namespace_schemas(server) == IF server = "c1" THEN {"S1", "S2"} ELSE {"S1"}

\* SELECT TABLE_SCHEMA, TABLE_NAME FROM INFORMATION_SCHEMA.TABLES ... AND TABLE_SCHEMA = ?
show_namespace_tables(server, table_schema) ==
  IF table_schema \notin show_namespace_schemas(server) THEN {}
  ELSE IF table_schema = "S1" /\ server = "c1" THEN {"T", "U"}
  ELSE {"T"}

\* the session's keys at their defaults; dropped holds the connection handle
\* of the client init_connection.clear() dropped last, as the drop left it
initialize_session_state ==
  [iris_connection |-> None, connection_status |-> "Not Connected", df |-> None,
   schema_input |-> NoSelection, selected_table |-> NoSelection, table_data |-> None,
   filters |-> <<>>, transformed_data |-> None, aggregation_result |-> None,
   dropped |-> <<>>]

\* a run in which the user touches no widget of the tabs
NoEvent == [widget |-> "none", value |-> "none", listed |-> TRUE, filtered |-> FALSE]

reset_table_data(s) ==
  [s EXCEPT !.table_data = None, !.filters = <<>>, !.transformed_data = None, !.aggregation_result = None]

\* init_connection.clear(): the cache lets go of the client; nothing closes it
init_connection_clear(s) ==
  IF s.iris_connection = None THEN s ELSE [s EXCEPT !.dropped = <<Connected.conn>>]

_connect(s, server, ok) ==
  IF ok
    THEN [init_connection_clear(s) EXCEPT !.iris_connection = <<server>>, !.connection_status = "Connected"]
    ELSE [init_connection_clear(s) EXCEPT !.connection_status = "Failed", !.iris_connection = None]

_disconnect(s) ==
  [init_connection_clear(s) EXCEPT !.iris_connection = None, !.connection_status = "Disconnected",
                                   !.table_data = None, !.transformed_data = None, !.filters = <<>>]

\* the value of the schema selectbox in a run: the user's choice, or the default index
SchemaWidget(s, ev) ==
  IF ev.widget = "schema" THEN ev.value
  ELSE IF s.schema_input \in show_namespace_schemas(s.iris_connection[1]) THEN s.schema_input
  ELSE NoSelection

SchemaChosen(s, schema_input) ==
  IF schema_input # s.schema_input
    THEN reset_table_data([s EXCEPT !.schema_input = schema_input])
    ELSE s

\* the value of the table selectbox in a run: the user's choice, or the default index
TableWidget(s, ev) ==
  IF ev.widget = "table" THEN ev.value
  ELSE IF s.selected_table \in show_namespace_tables(s.iris_connection[1], s.schema_input) THEN s.selected_table
  ELSE NoSelection

TableChosenKeepsData(s, selected_table) == [s EXCEPT !.selected_table = selected_table]

TableChosen(s, selected_table) ==
  IF selected_table # s.selected_table
    THEN reset_table_data([s EXCEPT !.selected_table = selected_table])
    ELSE s

\* the session after the selector and the table it returns; when the listing
\* of the tables raises, the explore tab renders nothing more in this run
TableSelected(s, ev) ==
  IF s.schema_input = NoSelection \/ ~ev.listed
    THEN [s |-> s, selected_table |-> NoSelection]
    ELSE [s |-> TableChosen(s, TableWidget(s, ev)), selected_table |-> TableWidget(s, ev)]

_render_table_selector(s, ev) == TableSelected(SchemaChosen(s, SchemaWidget(s, ev)), ev)

\* fetched is what iris.fetch gave: "rows", "empty", or "fail" when it raised
_load_table_data(s, schema, table, fetched) ==
  IF fetched = "fail" THEN s
  ELSE [s EXCEPT !.table_data = <<fetched, schema, table, s.iris_connection[1]>>,
                 !.filters = <<>>, !.transformed_data = None]

_render_load_data_section(s, ev, table) ==
  IF ev.widget = "load" THEN _load_table_data(s, s.schema_input, table, ev.value) ELSE s

\* a frame derived from df
Derived(kind, df) == <<kind, df[2], df[3], df[4]>>

\* Calculate Aggregation, Clear Results
render_transform(s, ev) ==
  IF ev.widget = "aggregate" /\ ev.value = "ok"
    THEN [s EXCEPT !.aggregation_result = Derived("agg", s.table_data)]
  ELSE IF ev.widget = "clear_results" /\ s.aggregation_result # None
    THEN [s EXCEPT !.aggregation_result = None]
  ELSE s

\* Clear Filters resets the filter widgets and runs the script again; otherwise
\* the frame is filtered when the filter widgets of this run hold a filter
_render_integrated_filters(s, ev) ==
  IF ev.widget = "clear_filters" /\ s.transformed_data # None /\ s.transformed_data[1] = "filtered"
    THEN [s EXCEPT !.transformed_data = Derived("rows", s.table_data)]
  ELSE IF ev.filtered
    THEN [s EXCEPT !.transformed_data = Derived("filtered", s.table_data)]
  ELSE [s EXCEPT !.transformed_data = Derived("rows", s.table_data)]

_render_analysis_sections(s, ev) == _render_integrated_filters(render_transform(s, ev), ev)

AnalysisRendered(s, ev) ==
  IF s.table_data # None /\ s.table_data[1] # "empty"
    THEN _render_analysis_sections(s, ev)
    ELSE s

TableRendered(sel, ev) ==
  IF sel.selected_table # NoSelection
    THEN AnalysisRendered(_render_load_data_section(sel.s, ev, sel.selected_table), ev)
    ELSE sel.s

render_explore_tab(s, ev) == TableRendered(_render_table_selector(s, ev), ev)

\* the file uploader: the file is read into df, df is None when reading fails
render_upload_tab(s, ev) ==
  IF ev.widget = "file"
    THEN [s EXCEPT !.df = IF ev.value = "ok" THEN <<"file">> ELSE None]
    ELSE s

\* one run of the script below the sidebar: st.stop() without a client
Script(s, ev) ==
  IF s.iris_connection = None THEN s ELSE render_explore_tab(render_upload_tab(s, ev), ev)

----------------------------------------------------------------------------
(* The client under a sequence of calls *)

\* what the client knows of the namespace when it connects: nothing created yet
NothingCreated == [key \in Keys |-> "absent"]

\* the effect of one logged call on the connection on what the client has
\* created: a CREATE that succeeded adds the object, a DROP that succeeded
\* removes the object of that kind
Noted(l, e) ==
  IF e.ev # "execute" \/ ~e.ok \/ Resolve(e.sql.name) \notin DOMAIN l THEN l
  ELSE IF e.sql.verb = "CREATE TABLE" THEN [l EXCEPT ![Resolve(e.sql.name)] = "table"]
  ELSE IF e.sql.verb = "CREATE VIEW" THEN [l EXCEPT ![Resolve(e.sql.name)] = "view"]
  ELSE IF e.sql.verb = "DROP" /\ l[Resolve(e.sql.name)] = e.sql.opt[1]
    THEN [l EXCEPT ![Resolve(e.sql.name)] = "absent"]
  ELSE l

RECURSIVE NotedAll(_, _, _)
\* Noted over log[i..]
NotedAll(l, log, i) == IF i > Len(log) THEN l ELSE NotedAll(Noted(l, log[i]), log, i + 1)

Init ==
  /\ db = EmptyDb
  /\ committed = EmptyDb
  /\ call = NoCall
  /\ live = NothingCreated
  /\ vname = <<>>
  /\ vschema = <<>>
  /\ vres = NotCalled
  /\ client = Connected
  /\ session = initialize_session_state

\* The client is synchronous: one call at a time.  The state after a call
\* that ended as out holds its record until the caller has taken the outcome.
Called(op, args, out) ==
  /\ call = NoCall
  /\ db' = out.m.db
  /\ committed' = out.m.cm
  /\ call' = [op |-> op, args |-> args, res |-> out.res, log |-> out.m.log, pre |-> db]
  /\ live' = NotedAll(live, out.m.log, 1)
  /\ UNCHANGED <<vname, vschema, vres, client, session>>

CreateTable ==
  \E id \in TableIdents : \E col \in {ColA, ColB}, check_exists \in BOOLEAN,
     faults \in FaultsFor(id, 2) :
    Called("create_table",
           [name |-> id[1], schema |-> id[2], columns |-> << <<col, "INT">> >>,
            check_exists |-> check_exists, faults |-> faults],
           create_table(Start(db, committed, faults, 0), 0, id[1],
                        << <<col, "INT">> >>, id[2], check_exists))

DropTable ==
  \E id \in AnyIdents : \E if_exists \in BOOLEAN, drop_related_views \in BOOLEAN,
     view_or_table \in {"table", "view"}, faults \in FaultsFor(id, 4) :
    Called("drop_table",
           [name |-> id[1], schema |-> id[2], if_exists |-> if_exists,
            drop_related_views |-> drop_related_views, view_or_table |-> view_or_table,
            faults |-> faults],
           drop_table(Start(db, committed, faults, 0), 0, id[1], id[2], if_exists,
                      drop_related_views, view_or_table))

InsertRow ==
  \E id \in TableIdents : \E col \in {ColA, ColB}, faults \in FaultsFor(id, 1) :
    /\ RowsOf(db, <<S, T>>) < MaxRows
    /\ Called("insert_row",
              [name |-> id[1], schema |-> id[2], values |-> << <<col, 1>> >>,
               faults |-> faults],
              insert_row(Start(db, committed, faults, 0), 0, id[1], << <<col, 1>> >>, id[2]))

InsertMany ==
  \E id \in TableIdents : \E col \in {ColA, ColB}, n \in 0..MaxRows,
     faults \in FaultsFor(id, 1), lost \in 0..1 :
    LET rows == [i \in 1..n |-> << <<col, 1>> >>]
    IN /\ RowsOf(db, <<S, T>>) + n <= MaxRows
       /\ Called("insert_many",
                 [name |-> id[1], schema |-> id[2], rows |-> rows, faults |-> faults,
                  lost |-> lost],
                 insert_many(Start(db, committed, faults, lost), 0, id[1], rows, id[2]))

Update ==
  \E id \in TableIdents : \E col \in {ColA, ColB}, faults \in FaultsFor(id, 1) :
    Called("update",
           [name |-> id[1], schema |-> id[2], new_values |-> << <<col, 2>> >>,
            filters |-> << <<col, 1>> >>, faults |-> faults],
           update(Start(db, committed, faults, 0), 0, id[1], << <<col, 2>> >>,
                  << <<col, 1>> >>, id[2]))

UpdateMany ==
  \E id \in TableIdents : \E n \in 0..2, faults \in FaultsFor(id, 2) :
    LET updates == SubSeq(<< << << <<ColA, 2>> >>, << <<ColA, 1>> >> >>,
                             << << <<ColA, 1>> >>, << <<ColA, 2>> >> >> >>, 1, n)
    IN Called("update_many",
              [name |-> id[1], schema |-> id[2], updates |-> updates, faults |-> faults],
              update_many(Start(db, committed, faults, 0), 0, id[1], updates, id[2]))

AddColumns ==
  \E id \in TableIdents : \E n \in 1..2, faults \in FaultsFor(id, 2) :
    LET new_columns == SubSeq(<< <<ColX, "INT">>, <<ColY, "INT">> >>, 1, n)
    IN Called("add_columns",
              [name |-> id[1], schema |-> id[2], new_columns |-> new_columns,
               faults |-> faults],
              add_columns(Start(db, committed, faults, 0), 0, id[1], new_columns, id[2]))

CreateIndex ==
  \E id \in TableIdents : \E faults \in FaultsFor(id, 2) :
    Called("create_index",
           [name |-> id[1], schema |-> id[2], index_name |-> <<"i">>, column |-> ColA,
            faults |-> faults],
           create_index(Start(db, committed, faults, 0), 0, <<"i">>, id[1], ColA, "index",
                        id[2]))

CreateHnswIndex ==
  \E id \in TableIdents : \E faults \in FaultsFor(id, 1) :
    Called("create_hnsw_index",
           [name |-> id[1], schema |-> id[2], index_name |-> <<"i">>, column |-> ColA,
            faults |-> faults],
           create_hnsw_index(Start(db, committed, faults, 0), 0, id[1], ColA, <<"i">>, id[2]))

CreateView ==
  \E id \in ViewIdents : \E exist_ok \in BOOLEAN, drop_if_exists \in BOOLEAN,
     faults \in FaultsFor(id, 3) :
    Called("create_view",
           [name |-> id[1], schema |-> id[2], base |-> <<S, T>>, exist_ok |-> exist_ok,
            drop_if_exists |-> drop_if_exists, faults |-> faults],
           create_view(Start(db, committed, faults, 0), 0, id[1], <<S, T>>, id[2], exist_ok,
                       drop_if_exists))

DfToTable ==
  \E id \in TableIdents : \E n \in 0..1, exist_ok \in BOOLEAN, drop_if_exists \in BOOLEAN,
     faults \in FaultsFor(id, 4) :
    Called("df_to_table",
           [name |-> id[1], schema |-> id[2], df |-> Frame(<<ColA>>, n),
            exist_ok |-> exist_ok, drop_if_exists |-> drop_if_exists,
            drop_related_views |-> FALSE, indices |-> <<>>, faults |-> faults, lost |-> 0],
           df_to_table(Start(db, committed, faults, 0), 0, Frame(<<ColA>>, n), id[1], id[2],
                       NoColumnTypes, exist_ok, drop_if_exists, FALSE, <<>>))

TableExists ==
  \E id \in AnyIdents : \E faults \in FaultsFor(id, 1) :
    Called("table_exists",
           [name |-> id[1], schema |-> id[2], faults |-> faults],
           table_exists(Start(db, committed, faults, 0), 0, id[1], id[2]))

\* the caller takes the outcome of the call; the client is ready for the next one
TakeOutcome ==
  /\ call # NoCall
  /\ call' = NoCall
  /\ UNCHANGED <<db, committed, live, vname, vschema, vres, client, session>>

Next ==
  \/ TakeOutcome
  \/ CreateTable
  \/ DropTable
  \/ InsertRow
  \/ InsertMany
  \/ Update
  \/ UpdateMany
  \/ AddColumns
  \/ CreateIndex
  \/ CreateHnswIndex
  \/ CreateView
  \/ DfToTable
  \/ TableExists

Spec == Init /\ [][Next]_vars

----------------------------------------------------------------------------
(* validate_table_name on its own *)

Alphabet == {"A", ".", "_"}
Texts(n) == UNION {[1..k -> Alphabet] : k \in 0..n}

InitValidate ==
  /\ db = EmptyDb
  /\ committed = EmptyDb
  /\ call = NoCall
  /\ live = NothingCreated
  /\ vname \in Texts(MaxLen)
  /\ vschema \in Texts(MaxLen) \cup {None}
  /\ vres = NotCalled
  /\ client = Connected
  /\ session = initialize_session_state

Validate ==
  /\ vres = NotCalled
  /\ vres' = validate_table_name(vname, vschema)
  /\ UNCHANGED <<db, committed, call, live, vname, vschema, client, session>>

SpecValidate == InitValidate /\ [][Validate]_vars

----------------------------------------------------------------------------
(* df_to_table with all its options, followed by a read of the table *)

\* the statements of the longest df_to_table call
LoadStatements == 10

\* <<exist_ok, drop_if_exists, drop_related_views>>
LoadFlags == {<<FALSE, FALSE, FALSE>>, <<TRUE, FALSE, FALSE>>, <<TRUE, TRUE, FALSE>>,
              <<TRUE, TRUE, TRUE>>}

LoadFrames == {Frame(<<ColA>>, n) : n \in 0..MaxRows} \cup {Frame(<<ColB, ColD>>, 1)}

LoadIndices ==
  {<<>>, <<[column |-> ColA, type |-> "hnsw"], [column |-> ColA, type |-> "index"]>>}

\* one failing statement, or a batch that skips one row without raising
LoadPlans(id) ==
  IF id \in BadIdents THEN {[faults |-> {}, lost |-> 0]}
  ELSE {[faults |-> f, lost |-> 0] : f \in FaultsUpTo(LoadStatements)}
         \cup {[faults |-> {}, lost |-> 1]}

DfToTableWithOptions ==
  \E id \in TableIdents : \E df \in LoadFrames, flags \in LoadFlags, indices \in LoadIndices,
     plan \in LoadPlans(id) :
    Called("df_to_table",
           [name |-> id[1], schema |-> id[2], df |-> df, exist_ok |-> flags[1],
            drop_if_exists |-> flags[2], drop_related_views |-> flags[3],
            indices |-> indices, faults |-> plan.faults, lost |-> plan.lost],
           df_to_table(Start(db, committed, plan.faults, plan.lost), 0, df, id[1], id[2],
                       NoColumnTypes, flags[1], flags[2], flags[3], indices))

\* the caller of df_to_table reads the table back: fetch("SELECT * FROM schema.name")
Fetch ==
  /\ call.op = "df_to_table"
  /\ ~(<<call.args.name, call.args.schema>> \in BadIdents)
  /\ \E faults \in FaultsUpTo(1) :
       LET full_name == validate_table_name(call.args.name, call.args.schema).val
           out == fetch(Start(db, committed, faults, 0), "fetch", 0,
                        Sql("SELECT *", full_name, <<>>, <<>>, <<>>, <<>>))
       IN /\ call' = [op |-> "fetch",
                      args |-> [name |-> call.args.name, schema |-> call.args.schema,
                                faults |-> faults, load |-> call.args,
                                loaded |-> call.res.kind = "return"],
                      res |-> out.res, log |-> out.m.log, pre |-> db]
          /\ db' = out.m.db
          /\ committed' = out.m.cm
          /\ live' = NotedAll(live, out.m.log, 1)
  /\ UNCHANGED <<vname, vschema, vres, client, session>>

NextLoad ==
  \/ TakeOutcome
  \/ CreateView
  \/ DfToTableWithOptions
  \/ Fetch

SpecLoad == Init /\ [][NextLoad]_vars

----------------------------------------------------------------------------
(* infer_iris_types on its own: one column of each dtype, with values on   *)
(* both sides of every threshold of the function                           *)

Series(samples) == UNION {[1..k -> samples] : k \in 0..MaxRows}

IntSamples == {Wide(0), Wide(INT_MAX), WideSucc(Wide(INT_MAX)), Wide(INT_MIN), WidePred(Wide(INT_MIN))}
DateSamples == [date : {0, 1}, time : {0, 1}]
ObjectSamples ==
  {[t |-> "str", len |-> n] : n \in {0, max_string_length, max_string_length + 1}}
    \cup {[t |-> "date", len |-> 10], [t |-> "datetime", len |-> 19], [t |-> "time", len |-> 8],
          [t |-> "null", len |-> 4], [t |-> "other", len |-> max_string_length + 1]}

\* the frames of one column of the given dtype
InferFrames(dtype, samples) ==
  {[cols |-> <<[name |-> n, dtype |-> dtype, vals |-> v]>>] : n \in {ColA, ColB, ColD}, v \in Series(samples)}

InferCalls(dtype, samples) == {[NoCall EXCEPT !.args = [df |-> df]] : df \in InferFrames(dtype, samples)}

InitInfer ==
  /\ db = EmptyDb
  /\ committed = EmptyDb
  /\ \/ call \in InferCalls("int64", IntSamples)
     \/ call \in InferCalls("datetime64", DateSamples)
     \/ call \in InferCalls("object", ObjectSamples)
     \/ \E d \in {"float64", "bool", "category"} : call \in InferCalls(d, {})
  /\ live = NothingCreated
  /\ vname = <<>>
  /\ vschema = <<>>
  /\ vres = NotCalled
  /\ client = Connected
  /\ session = initialize_session_state

InferIrisTypes ==
  /\ call.op = "none"
  /\ call' = [call EXCEPT !.op = "infer_iris_types", !.res = Return(infer_iris_types(call.args.df))]
  /\ UNCHANGED <<db, committed, live, vname, vschema, vres, client, session>>

SpecInfer == InitInfer /\ [][InferIrisTypes]_vars

----------------------------------------------------------------------------
(* One client used in with-blocks and closed by hand *)

\* with client: ...
EnterScope ==
  /\ Len(client.log) < MaxEvents
  /\ client.depth < MaxDepth
  /\ ~client.exc
  /\ client' = [__enter__(Logged(client, "__enter__")) EXCEPT !.depth = @ + 1]
  /\ UNCHANGED <<db, committed, call, live, vname, vschema, vres, session>>

\* the body of the innermost with-block raises
BodyRaises ==
  /\ client.depth > 0
  /\ ~client.exc
  /\ client' = [Logged(client, "raise") EXCEPT !.exc = TRUE]
  /\ UNCHANGED <<db, committed, call, live, vname, vschema, vres, session>>

\* the innermost with-block is left, by its end or by the exception
ExitScope ==
  /\ client.depth > 0
  /\ client' = [__exit__(Logged(client, "__exit__")) EXCEPT !.depth = @ - 1]
  /\ UNCHANGED <<db, committed, call, live, vname, vschema, vres, session>>

\* client.close()
Close ==
  /\ Len(client.log) < MaxEvents
  /\ ~client.exc
  /\ client' = close(Logged(client, "close"))
  /\ UNCHANGED <<db, committed, call, live, vname, vschema, vres, session>>

\* the exception has left every with-block and the caller handles it
Caught ==
  /\ client.depth = 0
  /\ client.exc
  /\ client' = [client EXCEPT !.exc = FALSE]
  /\ UNCHANGED <<db, committed, call, live, vname, vschema, vres, session>>

NextScope ==
  \/ EnterScope
  \/ BodyRaises
  \/ ExitScope
  \/ Close
  \/ Caught

SpecScope == Init /\ [][NextScope]_vars

----------------------------------------------------------------------------
(* The dashboard session under the user's clicks *)

\* the Connect / Reconnect button; a successful connect runs the script again
Connect ==
  /\ \E server \in Servers, ok \in BOOLEAN :
       session' = Script(_connect(session, server, ok), NoEvent)
  /\ UNCHANGED <<db, committed, call, live, vname, vschema, vres, client>>

\* the Disconnect button, shown while a client is connected
Disconnect ==
  /\ session.iris_connection # None
  /\ session' = Script(_disconnect(session), NoEvent)
  /\ UNCHANGED <<db, committed, call, live, vname, vschema, vres, client>>

\* the user acts on one widget of the tabs
Widgets == {"schema", "table", "load", "file", "aggregate", "clear_results", "clear_filters", "filters"}

Values(s, widget) ==
  IF widget = "schema" THEN {NoSelection} \cup show_namespace_schemas(s.iris_connection[1])
  ELSE IF widget = "table" THEN {NoSelection} \cup show_namespace_tables(s.iris_connection[1], s.schema_input)
  ELSE IF widget = "load" THEN {"rows", "empty", "fail"}
  ELSE IF widget \in {"file", "aggregate"} THEN {"ok", "fail"}
  ELSE {"none"}

Act(widget) ==
  /\ session.iris_connection # None
  /\ \E value \in Values(session, widget), listed \in BOOLEAN, filtered \in BOOLEAN :
       session' = Script(session, [widget |-> widget, value |-> value, listed |-> listed, filtered |-> filtered])
  /\ UNCHANGED <<db, committed, call, live, vname, vschema, vres, client>>

\* the widgets a run renders: the table selectbox under a schema, the Load
\* Data button under a table, the analysis tabs under a loaded, non-empty frame
TableShown == session.schema_input # NoSelection
LoadShown == TableShown /\ session.selected_table # NoSelection
AnalysisShown == LoadShown /\ session.table_data # None /\ session.table_data[1] # "empty"

SelectSchema == Act("schema")
SelectTable == TableShown /\ Act("table")
LoadData == LoadShown /\ Act("load")
UploadFile == Act("file")
CalculateAggregation == AnalysisShown /\ Act("aggregate")
ClearResults == AnalysisShown /\ session.aggregation_result # None /\ Act("clear_results")
ClearFilters == AnalysisShown /\ session.transformed_data # None /\ session.transformed_data[1] = "filtered" /\ Act("clear_filters")
SetFilters == AnalysisShown /\ Act("filters")

NextSession ==
  \/ Connect
  \/ Disconnect
  \/ SelectSchema
  \/ SelectTable
  \/ LoadData
  \/ UploadFile
  \/ CalculateAggregation
  \/ ClearResults
  \/ ClearFilters
  \/ SetFilters

SpecSession == Init /\ [][NextSession]_vars

----------------------------------------------------------------------------
(* Properties *)

\* the calls the called operation itself made on the connection
Own(c) == SelectSeq(c.log, LAMBDA e : e.depth = 0)
Statements(log) == SelectSeq(log, LAMBDA e : e.ev \in {"execute", "executemany"})
Commits(log) == Len(SelectSeq(log, LAMBDA e : e.ev = "commit"))
Rollbacks(log) == Len(SelectSeq(log, LAMBDA e : e.ev = "rollback"))

InvalidIdent(name, schema) ==
  Contains(name, ".") \/ Contains(name, "_") \/ Contains(schema, ".")

\* table_exists as the next call would answer
Exists(name, schema) == table_exists(Start(db, committed, {}, 0), 0, name, schema).res.val

SingleStatementOps ==
  {"create_table", "drop_table", "insert_row", "insert_many", "update", "create_index",
   "create_view"}

\* C1: in create_table, drop_table, insert_row, insert_many, update, create_index and
\* create_view, a statement that executes is followed by exactly one commit and no
\* rollback; a statement that fails is followed by one rollback and no commit, and the
\* call raises the error of that statement.
C1_CommitOrRollbackAndReraise ==
  call.op \in SingleStatementOps =>
    LET own == Own(call)
        stmts == Statements(own)
    IN stmts # <<>> =>
         /\ Len(stmts) = 1
         /\ stmts[1].ok =>
              /\ Commits(own) = 1
              /\ Rollbacks(own) = 0
              /\ call.res.kind = "return"
         /\ ~stmts[1].ok =>
              /\ Rollbacks(own) = 1
              /\ Commits(own) = 0
              /\ call.res.kind = "raise"
              /\ call.res.err = EngineError(stmts[1].k)

C1_Witness ==
  /\ call.op = "create_view"
  /\ Statements(Own(call)) # <<>>
  /\ ~Statements(Own(call))[1].ok
  /\ call.res.kind = "raise"

\* C2: validate_table_name raises the invalid-identifier error for every table name
\* with a period or an underscore, whatever the schema, and for every schema with a
\* period, whatever the name.
C2_InvalidIdentifierRejected ==
  (vres # NotCalled /\ InvalidIdent(vname, vschema)) =>
    /\ vres.kind = "raise"
    /\ IsInvalidIdentifier(vres.err)

C2_Witness ==
  /\ vres.kind = "raise"
  /\ Contains(vname, "_")
  /\ ~Contains(vname, ".")
  /\ vschema = None

IdentOps ==
  {"create_table", "drop_table", "insert_row", "insert_many", "update", "update_many",
   "add_columns", "create_index", "create_hnsw_index", "create_view", "df_to_table"}

\* insert_many and update_many return 0 for an empty list before they validate
EmptyBatch ==
  \/ call.op = "insert_many" /\ call.args.rows = <<>>
  \/ call.op = "update_many" /\ call.args.updates = <<>>

Untouched == call.log = <<>> /\ db = call.pre /\ committed = call.pre

\* C3 as claimed: every operation that builds DDL/DML from a table name raises the
\* invalid-identifier error on an invalid name or schema, with no execute, commit or
\* rollback and the database unchanged.
C3_InvalidIdentifierAlwaysRaises ==
  (call.op \in IdentOps /\ InvalidIdent(call.args.name, call.args.schema)) =>
    /\ call.res.kind = "raise"
    /\ IsInvalidIdentifier(call.res.err)
    /\ Untouched

\* C3 as amended: on an invalid name or schema no operation executes, commits or rolls
\* back anything and the database is unchanged; the call raises the invalid-identifier
\* error, except insert_many and update_many with an empty list, which return 0.
C3_InvalidIdentifierTouchesNothing ==
  (call.op \in IdentOps /\ InvalidIdent(call.args.name, call.args.schema)) =>
    /\ Untouched
    /\ EmptyBatch => (call.res.kind = "return" /\ call.res.val = 0)
    /\ ~EmptyBatch => (call.res.kind = "raise" /\ IsInvalidIdentifier(call.res.err))

C3_Witness ==
  /\ call.op = "df_to_table"
  /\ call.args.schema = DottedSchema
  /\ call.res.kind = "raise"
  /\ call.pre[<<S, T>>].kind = "table"

\* C4 as claimed: insert_many on a non-empty list returns len(rows), or raises after a
\* rollback and without a commit; it never commits and returns a short count.
C4_InsertManyCountIntegrity ==
  (call.op = "insert_many" /\ call.args.rows # <<>>
   /\ ~InvalidIdent(call.args.name, call.args.schema)) =>
    \/ call.res.kind = "return" /\ call.res.val = Len(call.args.rows)
    \/ call.res.kind = "raise" /\ Rollbacks(call.log) = 1 /\ Commits(call.log) = 0

\* position in the log of the statement the called operation itself executed (0: none)
OwnStatementAt(log) ==
  IF \E j \in DOMAIN log : log[j].depth = 0 /\ log[j].ev \in {"execute", "executemany"}
    THEN CHOOSE j \in DOMAIN log : log[j].depth = 0 /\ log[j].ev \in {"execute", "executemany"}
    ELSE 0

\* the successful DROP VIEW of key is in the log before position p
ViewDroppedBefore(log, key, p) ==
  \E j \in DOMAIN log :
    /\ j < p
    /\ log[j].ev = "execute" /\ log[j].ok
    /\ log[j].sql.verb = "DROP" /\ log[j].sql.opt[1] = "view"
    /\ log[j].sql.name = key[1] \o <<".">> \o key[2]

\* C6: a successful drop_table(T, drop_related_views=True) of a table T drops every view
\* the catalog reports as depending on T, each before the DROP of T is executed, and
\* then T: afterwards table_exists is false for T and for each of those views.
C6_CascadingDrop ==
  (/\ call.op = "drop_table"
   /\ call.res.kind = "return"
   /\ call.args.drop_related_views
   /\ call.args.view_or_table = "table"
   /\ call.pre[<<call.args.schema, call.args.name>>].kind # "view") =>
    LET views == ViewTableUsage(call.pre, call.args.name, call.args.schema)
    IN /\ ~Exists(call.args.name, call.args.schema)
       /\ \A i \in DOMAIN views :
            /\ ~Exists(views[i][2], views[i][1])
            /\ ViewDroppedBefore(call.log, views[i], OwnStatementAt(call.log))

C6_Witness ==
  /\ call.op = "drop_table"
  /\ call.res.kind = "return"
  /\ call.args.drop_related_views
  /\ call.args.view_or_table = "table"
  /\ call.pre[<<S, T>>].kind = "table"
  /\ call.args.name = T
  /\ Len(ViewTableUsage(call.pre, T, S)) = 2

NormalizedColumns(df) == {Normalize(df.cols[i].name) : i \in DOMAIN df.cols}

\* fetch has read the table back after df_to_table(V, T, exist_ok=True,
\* drop_if_exists=True) returned
ReadBackAfterLoad ==
  /\ call.op = "fetch"
  /\ call.args.loaded
  /\ call.args.load.exist_ok
  /\ call.args.load.drop_if_exists
  /\ call.args.faults = {}

Writes(log) ==
  SelectSeq(log, LAMBDA e : /\ e.ev \in {"execute", "executemany"}
                            /\ e.sql.verb \in {"DROP", "CREATE TABLE", "CREATE INDEX",
                                               "INSERT"})

\* C8 as claimed: df_to_table with exist_ok=False on an existing table fails with the
\* domain error TableAlreadyExists from an existence check, not with the error of the
\* CREATE statement; the table and its rows are unchanged and no CREATE, index
\* creation or insert is executed.
C8_ExistingTableIsDomainError ==
  (/\ call.op = "df_to_table"
   /\ ~call.args.exist_ok
   /\ ~InvalidIdent(call.args.name, call.args.schema)
   /\ call.args.faults = {}
   /\ call.pre[<<call.args.schema, call.args.name>>].kind = "table") =>
    /\ call.res.kind = "raise"
    /\ call.res.err = TableAlreadyExists
    /\ Writes(call.log) = <<>>
    /\ db = call.pre

\* C9: df_to_table with exist_ok=True and drop_if_exists=False on an existing table,
\* when the existence lookup itself does not fail, returns without error, executes no
\* DROP, CREATE, index or INSERT statement, commits and rolls back nothing, and leaves
\* the table's definition and rows as they were.
C9_ExistOkSkipsLoad ==
  (/\ call.op = "df_to_table"
   /\ call.args.exist_ok
   /\ ~call.args.drop_if_exists
   /\ ~InvalidIdent(call.args.name, call.args.schema)
   /\ 1 \notin call.args.faults
   /\ call.pre[<<call.args.schema, call.args.name>>].kind = "table") =>
    /\ call.res.kind = "return"
    /\ Writes(call.log) = <<>>
    /\ Commits(call.log) = 0
    /\ Rollbacks(call.log) = 0
    /\ db = call.pre

C9_Witness ==
  /\ call.op = "df_to_table"
  /\ call.args.exist_ok
  /\ ~call.args.drop_if_exists
  /\ call.args.name = T /\ call.args.schema = S
  /\ call.args.df = Frame(<<ColA>>, 1)
  /\ call.pre[<<S, T>>].kind = "table"
  /\ call.pre[<<S, T>>].rows # <<>>
  /\ call.res.kind = "return"

\* the batch INSERT of df_to_table, when it has executed
ExecutedBatch(c) == SelectSeq(Own(c), LAMBDA e : e.ev = "executemany" /\ e.ok)

\* C10: once the batch INSERT of df_to_table has executed, a reported row count other
\* than the number of input rows makes df_to_table roll back, not commit, and raise;
\* df_to_table commits only after a batch whose count equals the number of input rows.
C10_CountMismatchRollsBack ==
  call.op = "df_to_table" =>
    LET own == Own(call)
        batch == ExecutedBatch(call)
        n == DfLen(call.args.df)
    IN /\ (batch # <<>> /\ batch[1].rowcount # n) =>
            /\ Rollbacks(own) = 1
            /\ Commits(own) = 0
            /\ call.res.kind = "raise"
            /\ call.res.err = LoadError(0)
            /\ db = committed
       /\ (batch # <<>> /\ batch[1].rowcount = n) =>
            /\ Commits(own) = 1
            /\ Rollbacks(own) = 0
            /\ call.res.kind = "return"
       /\ Commits(own) > 0 => (batch # <<>> /\ batch[1].rowcount = n)

C10_Witness ==
  /\ call.op = "df_to_table"
  /\ ExecutedBatch(call) # <<>>
  /\ ExecutedBatch(call)[1].rowcount = 1
  /\ DfLen(call.args.df) = 2
  /\ call.res.kind = "raise"
  /\ Rollbacks(Own(call)) = 1

\* the batch INSERT of df_to_table, when it was handed to the server
AttemptedBatch(c) == SelectSeq(Own(c), LAMBDA e : e.ev = "executemany")

\* the names of the indexes a call created
CreatedIndexes(log) ==
  {log[j].sql.opt[1] : j \in {i \in DOMAIN log : /\ log[i].ev = "execute" /\ log[i].ok
                                                 /\ log[i].sql.verb = "CREATE INDEX"}}

\* C11: when the bulk insert of df_to_table fails (the statement fails or the count is
\* short) after the table was created, the call raises, the created table with its
\* normalized columns and every index created for it remain, committed, and the table
\* holds no row.
C11_FailedInsertKeepsEmptyTable ==
  (/\ call.op = "df_to_table"
   /\ AttemptedBatch(call) # <<>>
   /\ call.res.kind = "raise") =>
    LET t == db[<<call.args.schema, call.args.name>>]
    IN /\ call.res.err.type = "RuntimeError"
       /\ t.kind = "table"
       /\ Range(t.cols) = NormalizedColumns(call.args.df)
       /\ t.rows = <<>>
       /\ CreatedIndexes(call.log) \subseteq t.idx
       /\ committed = db

C11_Witness ==
  /\ call.op = "df_to_table"
  /\ AttemptedBatch(call) # <<>>
  /\ AttemptedBatch(call)[1].ok
  /\ call.res.kind = "raise"
  /\ DfLen(call.args.df) = 2
  /\ Cardinality(CreatedIndexes(call.log)) = 2

\* C12: table_exists(name, schema) answers true exactly for the objects the client's
\* successful CREATE statements made and its successful DROP statements have not
\* removed since, whatever calls came before; the call runs one catalog query, no
\* commit and no rollback, and leaves the database as it was.
C12_TableExistsTracksCatalog ==
  /\ \A key \in Keys : Exists(key[2], key[1]) = (live[key] # "absent")
  /\ (/\ call.op = "table_exists"
      /\ ~InvalidIdent(call.args.name, call.args.schema)
      /\ call.args.faults = {}) =>
       /\ call.res.kind = "return"
       /\ call.res.val = (live[<<call.args.schema, call.args.name>>] # "absent")
       /\ Len(call.log) = 1
       /\ Commits(call.log) = 0
       /\ Rollbacks(call.log) = 0
       /\ db = call.pre

C12_Witness ==
  /\ call.op = "table_exists"
  /\ call.args.name = V
  /\ call.res.kind = "return"
  /\ call.res.val
  /\ live = [NothingCreated EXCEPT ![<<S, V>>] = "view"]

Inferred == call.op = "infer_iris_types"
InferredColumn == call.args.df.cols[1]
InferredKey == Normalize(InferredColumn.name)
InferredType == DictGet(call.res.val, InferredKey)
BeyondInt(vals) == \E i \in DOMAIN vals : WideGreater(vals[i], <<32767, 65535>>) \/ WideGreater(<<0 - 32768, 0>>, vals[i])

\* C14: infer_iris_types maps every integer-valued column to BIGINT when some
\* value is above 2147483647 or below -2147483648, and to INT otherwise.
C14_IntegerColumnIsIntOrBigint ==
  (Inferred /\ InferredColumn.dtype = "int64") =>
    /\ HasKey(call.res.val, InferredKey)
    /\ InferredType = IF BeyondInt(InferredColumn.vals) THEN "BIGINT" ELSE "INT"

AllNull(vals) == vals # <<>> /\ \A i \in DOMAIN vals : vals[i].t = "null"

\* C15: a column that no rule classifies gets VARCHAR(255); in particular an
\* object column whose values are all null gets VARCHAR(255).
C15_FallbackIsVarchar ==
  (/\ Inferred
   /\ \/ InferredColumn.dtype = "category"
      \/ InferredColumn.dtype = "object" /\ AllNull(InferredColumn.vals)) =>
    /\ HasKey(call.res.val, InferredKey)
    /\ InferredType = Varchar

Textual(vals) == vals # <<>> /\ \A i \in DOMAIN vals : vals[i].t = "str"
LongestOver255(vals) == \E i \in DOMAIN vals : vals[i].len >= 256

\* C16: a textual column gets VARCHAR(255) when its longest rendered value
\* has at most 255 characters and CLOB when it has more than 255.
C16_TextIsVarcharOrClob ==
  (Inferred /\ InferredColumn.dtype = "object" /\ Textual(InferredColumn.vals)) =>
    /\ HasKey(call.res.val, InferredKey)
    /\ InferredType = IF LongestOver255(InferredColumn.vals) THEN "CLOB" ELSE Varchar

IsNormalized(col) == col = Normalize(col)
AllNormalized(cols) == \A i \in DOMAIN cols : IsNormalized(cols[i])

\* C17: every column name embedded in the SQL of create_table, insert_row,
\* insert_many, update (SET and WHERE), update_many and df_to_table is in
\* normalized form (stripped, spaces and periods replaced by underscores).
C17_ColumnNamesNormalized ==
  call.op \in {"create_table", "insert_row", "insert_many", "update", "update_many", "df_to_table"} =>
    \A i \in DOMAIN call.log :
      call.log[i].sql.verb \in {"CREATE TABLE", "INSERT", "UPDATE"} =>
        AllNormalized(call.log[i].sql.cols) /\ AllNormalized(call.log[i].sql.where)

\* C18: for a valid name and schema, validate_table_name returns 'schema.name'
\* when the schema is non-empty and the bare name, without raising, when the
\* schema is the empty string or None.
C18_QualifiedOrBareName ==
  (vres # NotCalled /\ ~InvalidIdent(vname, vschema)) =>
    /\ vres.kind = "return"
    /\ vres.val = IF vschema \in {<<>>, None} THEN vname ELSE vschema \o <<".">> \o vname

Count(log, event) == Cardinality({i \in DOMAIN log : log[i] = event})
ClosedOrLeft == Count(client.log, "close") + Count(client.log, "__exit__") > 0

\* a with-block over the client is left
LeavesScope == client'.depth = client.depth - 1

\* C19: leaving a with-block closes the connection, on normal and on exceptional
\* exit, and an exception of the block still propagates; the connection's close is
\* invoked at most once over any sequence of close calls and scope exits, and from
\* the first of them on the client holds no connection handle.
C19_ScopedReleaseIdempotentClose ==
  /\ [](Count(client.log, "conn.close") <= 1)
  /\ [](ClosedOrLeft => (client.conn = None /\ Count(client.log, "conn.close") = 1))
  /\ [][LeavesScope => (client'.conn = None /\ client'.exc = client.exc)]_vars

C19_Witness ==
  /\ client.log = <<"__enter__", "raise", "__exit__", "conn.close", "close">>
  /\ client.conn = None
  /\ ~client.exc

CreateTableCalled == call.op = "create_table" /\ ~InvalidIdent(call.args.name, call.args.schema)
Lookups(log) == SelectSeq(log, LAMBDA e : e.sql.verb = "SELECT TABLES")
Creates(log) == SelectSeq(log, LAMBDA e : e.sql.verb = "CREATE TABLE")
ExistedBefore == call.pre[<<call.args.schema, call.args.name>>].kind = "table"

\* C20: create_table with check_exists=True on an existing table raises the 'table
\* already exists' error without executing CREATE, with no commit and no rollback,
\* and leaves the table as it was; with check_exists=False it makes no existence
\* lookup and always executes the CREATE statement.
C20_CheckExistsGuardsCreate ==
  /\ (CreateTableCalled /\ call.args.check_exists /\ ExistedBefore) =>
       /\ call.res.kind = "raise"
       /\ call.args.faults = {} => call.res.err = TableAlreadyExists
       /\ Creates(call.log) = <<>>
       /\ Commits(call.log) = 0
       /\ Rollbacks(call.log) = 0
       /\ db = call.pre
  /\ (CreateTableCalled /\ ~call.args.check_exists) =>
       /\ Lookups(call.log) = <<>>
       /\ Len(Creates(call.log)) = 1

C20_Witness ==
  /\ CreateTableCalled
  /\ call.args.check_exists
  /\ ExistedBefore
  /\ call.args.faults = {}
  /\ call.res = Raise(TableAlreadyExists)
  /\ Len(Lookups(call.log)) = 1

CreateViewOverExisting ==
  /\ call.op = "create_view"
  /\ ~InvalidIdent(call.args.name, call.args.schema)
  /\ call.pre[<<call.args.schema, call.args.name>>].kind # "absent"

Mutating(log) ==
  SelectSeq(log, LAMBDA e : e.sql.verb \in {"DROP", "CREATE TABLE", "CREATE INDEX", "CREATE VIEW",
                                            "INSERT", "UPDATE", "ALTER TABLE ADD"})

\* the DROP VIEW of the target succeeded and was committed before position p of the log
DroppedAndCommittedBefore(log, p) ==
  \E j \in DOMAIN log : \E k \in DOMAIN log :
    /\ j < k /\ k < p
    /\ log[j].sql.verb = "DROP" /\ log[j].ok /\ log[j].sql.opt[1] = "view"
    /\ log[j].sql.name = call.args.schema \o <<".">> \o call.args.name
    /\ log[k].ev = "commit"

FailedAt(log, i, verb) == log[i].sql.verb = verb /\ ~log[i].ok
NoneAfter(log, i, verbs) == \A j \in DOMAIN log : j > i => log[j].sql.verb \notin verbs

\* C22: in df_to_table a failing step aborts the remaining ones: when the CREATE
\* TABLE fails no index is created and no INSERT is executed, and when the creation
\* of an index of the list fails, ordinary or hnsw, no later index is created, the
\* INSERT is never executed and the call raises.
C22_FailingStepAborts ==
  call.op = "df_to_table" =>
    \A i \in DOMAIN call.log :
      /\ FailedAt(call.log, i, "CREATE TABLE") =>
           (call.res.kind = "raise" /\ NoneAfter(call.log, i, {"CREATE INDEX", "INSERT"}))
      /\ FailedAt(call.log, i, "CREATE INDEX") =>
           (call.res.kind = "raise" /\ NoneAfter(call.log, i, {"CREATE INDEX", "INSERT"}))

\* the CREATE INDEX statement of the called operation failed
IndexStatementFailed(op) ==
  /\ call.op = op
  /\ \E i \in DOMAIN call.log : /\ call.log[i].depth = 0
                                 /\ FailedAt(call.log, i, "CREATE INDEX")

\* C23: when the statement of create_hnsw_index fails the operation returns normally:
\* it raises nothing, calls neither commit nor rollback and leaves the transaction
\* state of the connection as it was; create_index rolls back and re-raises.
C23_HnswFailureSwallowed ==
  /\ IndexStatementFailed("create_hnsw_index") =>
       /\ call.res = Return(<<>>)
       /\ Commits(call.log) = 0
       /\ Rollbacks(call.log) = 0
       /\ db = call.pre
  /\ IndexStatementFailed("create_index") =>
       /\ call.res.kind = "raise"
       /\ Commits(call.log) = 0
       /\ Rollbacks(call.log) = 1
       /\ db = call.pre

C23_Witness ==
  /\ IndexStatementFailed("create_hnsw_index")
  /\ call.pre[<<S, T>>].kind = "table"
  /\ call.res.kind = "return"

\* the positions of the log with a statement of the given verb
At(log, verb) == {i \in DOMAIN log : log[i].sql.verb = verb}

\* the index names of the list given to df_to_table, in list order
ListedIndexes ==
  [i \in DOMAIN call.args.indices |->
     IndexName(call.args.name, Normalize(call.args.indices[i].column), call.args.indices[i].type)]

\* the index names of the CREATE INDEX statements of the log, in log order
IndexStatements(log) ==
  LET stmts == SelectSeq(log, LAMBDA e : e.sql.verb = "CREATE INDEX")
  IN [i \in DOMAIN stmts |-> stmts[i].sql.opt[1]]

ReachesBulkInsert == call.op = "df_to_table" /\ At(call.log, "INSERT") # {}

\* CREATE TABLE, its commit, the index statements in list order, then the INSERT
LoadInOrder ==
  /\ IndexStatements(call.log) = ListedIndexes
  /\ \E t \in At(call.log, "CREATE TABLE") : \E c \in DOMAIN call.log :
       /\ call.log[t].ok
       /\ t < c
       /\ call.log[c].ev = "commit" /\ call.log[c].op = "create_table"
       /\ \A i \in At(call.log, "CREATE INDEX") : c < i
       /\ \A p \in At(call.log, "INSERT") :
            c < p /\ \A i \in At(call.log, "CREATE INDEX") : i < p

TypeUnderPlainName ==
  DictGet(infer_iris_types([cols |-> <<[InferredColumn EXCEPT !.name = ColA]>>]), ColA)

\* C25: the type infer_iris_types stores under a column's normalized name depends on
\* the column's value-type and values only: a column whose raw name differs from its
\* normalized name gets, under the normalized name, the type its values give it.
C25_TypeIndependentOfName ==
  Inferred =>
    /\ DictKeys(call.res.val) = <<InferredKey>>
    /\ InferredType = TypeUnderPlainName

Alters(log) == SelectSeq(log, LAMBDA e : e.sql.verb = "ALTER TABLE ADD")

\* add_columns was called on a valid identifier and one of its statements failed
AddColumnsFailed ==
  /\ call.op = "add_columns"
  /\ ~InvalidIdent(call.args.name, call.args.schema)
  /\ \E i \in DOMAIN call.log : FailedAt(call.log, i, "ALTER TABLE ADD")

\* C26: add_columns commits after each ALTER TABLE: when the statement for the k-th
\* column fails the call rolls back and raises, the columns before the k-th remain
\* added to the table, and the k-th and later ones are not added.
C26_AddColumnsNotAtomic ==
  AddColumnsFailed =>
    LET k == Len(Alters(call.log))
        key == <<call.args.schema, call.args.name>>
        added == [i \in 1..(k - 1) |-> call.args.new_columns[i][1]]
    IN /\ call.res.kind = "raise"
       /\ ~Alters(call.log)[k].ok
       /\ \A i \in 1..(k - 1) : Alters(call.log)[i].ok
       /\ Commits(call.log) = k - 1
       /\ Rollbacks(call.log) = 1
       /\ db[key].cols = call.pre[key].cols \o added
       /\ committed = db

C26_Witness ==
  /\ AddColumnsFailed
  /\ Len(call.args.new_columns) = 2
  /\ Len(Alters(call.log)) = 2
  /\ ColX \in Range(db[<<S, T>>].cols)
  /\ ColX \notin Range(call.pre[<<S, T>>].cols)
  /\ ColY \notin Range(db[<<S, T>>].cols)

\* drop_table(T, drop_related_views=True) of a valid identifier raised
CascadeFailed ==
  /\ call.op = "drop_table"
  /\ ~InvalidIdent(call.args.name, call.args.schema)
  /\ call.args.drop_related_views
  /\ call.args.view_or_table = "table"
  /\ call.res.kind = "raise"

\* the views over the table, as the catalog listed them before the call
RelatedBefore == ViewTableUsage(call.pre, call.args.name, call.args.schema)

\* those of them whose DROP VIEW succeeded during the call
DroppedViews ==
  {RelatedBefore[i] : i \in {j \in DOMAIN RelatedBefore :
                               ViewDroppedBefore(call.log, RelatedBefore[j], Len(call.log) + 1)}}

\* C27: a cascading drop is not atomic: each dependent view is dropped and committed
\* on its own before T is dropped, so when the drop of the k-th view or of T fails
\* the call raises, the views already dropped stay dropped, and T and the remaining
\* views still exist.
C27_CascadeNotAtomic ==
  CascadeFailed =>
    /\ \A key \in Keys : db[key] = IF key \in DroppedViews THEN Absent ELSE call.pre[key]
    /\ committed = db
    /\ Commits(call.log) = Cardinality(DroppedViews)
    /\ \A i \in DOMAIN RelatedBefore : \A j \in DOMAIN RelatedBefore :
         (j < i /\ RelatedBefore[i] \in DroppedViews) => RelatedBefore[j] \in DroppedViews

C27_Witness ==
  /\ CascadeFailed
  /\ call.args.name = T
  /\ call.pre[<<S, T>>].kind = "table"
  /\ Len(RelatedBefore) = 2
  /\ Cardinality(DroppedViews) = 1
  /\ db[<<S, T>>].kind = "table"

Updates(log) == SelectSeq(log, LAMBDA e : e.sql.verb = "UPDATE")

RECURSIVE RowcountSum(_)
RowcountSum(events) ==
  IF events = <<>> THEN 0 ELSE events[1].rowcount + RowcountSum(Tail(events))

\* update_many was called with a non-empty list on a valid identifier
UpdateManyCalled ==
  /\ call.op = "update_many"
  /\ call.args.updates # <<>>
  /\ ~InvalidIdent(call.args.name, call.args.schema)

\* the i-th UPDATE statement of the log is the one of the i-th pair of the list
InListOrder(log, updates) ==
  /\ Len(Updates(log)) <= Len(updates)
  /\ \A i \in DOMAIN Updates(log) :
       /\ Updates(log)[i].sql.cols = DictKeys(updates[i][1])
       /\ Updates(log)[i].sql.where = DictKeys(updates[i][2])
       /\ Updates(log)[i].sql.rows = DictValues(updates[i][1]) \o DictValues(updates[i][2])

\* C28: update_many is all-or-nothing: the updates are executed in list order and
\* committed once, after the last one; when the k-th update fails the call rolls back
\* and raises, nothing was committed and none of the earlier updates is persisted; on
\* success the sum of the affected-row counts is returned; an empty list returns 0
\* without touching the connection.
C28_UpdateManyAllOrNothing ==
  /\ (call.op = "update_many" /\ call.args.updates = <<>>) =>
       (call.res = Return(0) /\ Untouched)
  /\ UpdateManyCalled =>
       /\ InListOrder(call.log, call.args.updates)
       /\ call.res.kind = "return" =>
            /\ Len(Updates(call.log)) = Len(call.args.updates)
            /\ \A i \in DOMAIN Updates(call.log) : Updates(call.log)[i].ok
            /\ Commits(call.log) = 1
            /\ call.log[Len(call.log)].ev = "commit"
            /\ Rollbacks(call.log) = 0
            /\ call.res.val = RowcountSum(Updates(call.log))
            /\ committed = db
       /\ call.res.kind = "raise" =>
            /\ ~Updates(call.log)[Len(Updates(call.log))].ok
            /\ Commits(call.log) = 0
            /\ Rollbacks(call.log) = 1
            /\ db = call.pre
            /\ committed = call.pre

C28_Witness ==
  /\ UpdateManyCalled
  /\ call.res.kind = "raise"
  /\ Len(Updates(call.log)) = 2
  /\ Updates(call.log)[1].ok
  /\ Updates(call.log)[1].rowcount >= 1

\* the frames the session holds
Frames == {session.table_data, session.transformed_data, session.aggregation_result} \ {None}

\* every frame was read or derived from the selected table of the selected schema
FromSelection == \A d \in Frames : d[2] = session.schema_input /\ d[3] = session.selected_table

SelectionChanges ==
  \/ session'.schema_input # session.schema_input
  \/ session'.selected_table # session.selected_table

DerivedDataReset ==
  /\ session'.table_data = None
  /\ session'.filters = <<>>
  /\ session'.transformed_data = None
  /\ session'.aggregation_result = None

\* C29: a run of the script that changes the session's selected schema or selected
\* table leaves table_data, transformed_data and aggregation_result None and filters
\* empty; in every state each frame the session holds was read or derived from the
\* table and schema the session has selected.
C29_SelectionChangeResets ==
  /\ []FromSelection
  /\ [][SelectionChanges => DerivedDataReset]_vars

\* a table of the second schema loaded, filtered and aggregated after another table was
C29_Witness ==
  /\ session.schema_input = "S2"
  /\ session.selected_table = "T"
  /\ session.table_data = <<"rows", "S2", "T", "c1">>
  /\ session.transformed_data = <<"filtered", "S2", "T", "c1">>
  /\ session.aggregation_result = <<"agg", "S2", "T", "c1">>
  /\ session.df = <<"file">>

\* C30: once the user has disconnected, iris_connection, table_data, transformed_data,
\* aggregation_result and df are None, filters is empty, the schema and the table
\* selection are "(none)", and the handle of the dropped client is closed.
C30_DisconnectClearsSession ==
  session.connection_status = "Disconnected" =>
    /\ session.iris_connection = None
    /\ session.table_data = None
    /\ session.transformed_data = None
    /\ session.aggregation_result = None
    /\ session.df = None
    /\ session.filters = <<>>
    /\ session.schema_input = NoSelection
    /\ session.selected_table = NoSelection
    /\ session.dropped = <<None>>

====
